---- MODULE Spec2Model ----
(***************************************************************************)
(* Model of router/main.py: the webhook / recommendations handlers, the    *)
(* module-level display state with its pickle file, the WebSocketManager   *)
(* and the process entry point.                                            *)
(*                                                                         *)
(* Text is modelled as a sequence of fragments (a fragment is a run of     *)
(* characters: a word in some letter case, a number, or one blank), so     *)
(* that str.lower(), str.strip() and the substring test are computed.      *)
(* Arabic text is written transliterated with the prefix "ar_".            *)
(***************************************************************************)
EXTENDS Naturals, Sequences, FiniteSets, TLC

(***************************************************************************)
(* Bounds of the model.                                                    *)
(***************************************************************************)
MaxReq == 2
MaxViewers == 2
MaxStarts == 2
MaxSizeLen == 2
MaxSessions == 5

Reqs == 1..MaxReq
Viewers == 1..MaxViewers
Sessions == 1..MaxSessions

(***************************************************************************)
(* Text helpers.                                                           *)
(***************************************************************************)
BLANK == " "

\* str.lower() on one fragment
LowerFragment(a) ==
  CASE a = "Latte" -> "latte"
    [] a = "LATTE" -> "latte"
    [] a = "Mocha" -> "mocha"
    [] a = "Iced" -> "iced"
    [] a = "Americano" -> "americano"
    [] a = "MEDIUM" -> "medium"
    [] a = "Medium" -> "medium"
    [] a = "SMALL" -> "small"
    [] a = "Small" -> "small"
    [] a = "LARGE" -> "large"
    [] a = "Large" -> "large"
    [] a = "XL" -> "xl"
    [] OTHER -> a

\* str.lower()
Lower(s) == [i \in 1..Len(s) |-> LowerFragment(s[i])]

RECURSIVE LStrip(_)
LStrip(s) == IF s # <<>> /\ Head(s) = BLANK THEN LStrip(Tail(s)) ELSE s

RECURSIVE RStrip(_)
RStrip(s) ==
  IF s # <<>> /\ s[Len(s)] = BLANK THEN RStrip(SubSeq(s, 1, Len(s) - 1)) ELSE s

\* str.strip()
Strip(s) == RStrip(LStrip(s))

\* 'americano' in s
ContainsAmericano(s) == \E i \in 1..Len(s) : s[i] = "americano"

\* an item_id as sent (item_id: Any): a JSON number or a JSON string
IntId(n) == [kind |-> "int", v |-> <<ToString(n)>>]
StrId(s) == [kind |-> "str", v |-> s]

\* str(item.item_id): a number becomes its decimal text, text stays as it is
Str(x) == x.v

RECURSIVE Split(_)
\* str.split(","): the pieces between the "," fragments
Split(s) ==
  IF \A i \in 1..Len(s) : s[i] # ","
  THEN <<s>>
  ELSE LET k == CHOOSE i \in 1..Len(s) :
                  s[i] = "," /\ \A j \in 1..(i - 1) : s[j] # ","
       IN  <<SubSeq(s, 1, k - 1)>> \o Split(SubSeq(s, k + 1, Len(s)))

(***************************************************************************)
(* menu.json: the catalogs the checks run over.  Prices are in fils.       *)
(***************************************************************************)
Latte ==
  [item |-> <<"12">>, name_en |-> <<"Latte">>, name_ar |-> <<"ar_latte">>,
   sizes |-> [small |-> 1250, medium |-> 1500, large |-> 1750]]
Mocha ==
  [item |-> <<"7">>, name_en |-> <<"Mocha">>, name_ar |-> <<"ar_mocha">>,
   sizes |-> [small |-> 1000, medium |-> 1300, large |-> 1600]]
IcedAmericano ==
  [item |-> <<"5">>, name_en |-> <<"Iced", BLANK, "Americano">>,
   name_ar |-> <<"ar_americano">>,
   sizes |-> [small |-> 900, medium |-> 1100, large |-> 1400]]

Catalogs == {<<Latte, Mocha>>, <<Latte, IcedAmericano>>}

NotFound == [none |-> TRUE]

\* the condition of find_menu_item's if, for one catalog item
ItemMatches(item, item_id) ==
  LET name_en == Lower(item.name_en)
      name_ar == Lower(item.name_ar)
      item_num == Lower(item.item)
  IN  \/ item_num = item_id
      \/ name_en = item_id
      \/ ContainsAmericano(name_en)
      \/ name_ar = item_id

\* find_menu_item as it would be did it fall back to the first item
FindMenuItemDefault(menu, raw_id) ==
  LET item_id == Strip(Lower(raw_id))
      hits == {i \in 1..Len(menu) : ItemMatches(menu[i], item_id)}
  IN  IF hits = {} THEN menu[1]
      ELSE menu[CHOOSE i \in hits : \A j \in hits : i <= j]

\* find_menu_item as it would be did a later match replace an earlier one
FindMenuItemLast(menu, raw_id) ==
  LET item_id == Strip(Lower(raw_id))
      hits == {i \in 1..Len(menu) : ItemMatches(menu[i], item_id)}
  IN  IF hits = {} THEN NotFound
      ELSE menu[CHOOSE i \in hits : \A j \in hits : i >= j]

\* find_menu_item: the first catalog item that matches, or None
find_menu_item(menu, raw_id) ==
  LET item_id == Strip(Lower(raw_id))
      hits == {i \in 1..Len(menu) : ItemMatches(menu[i], item_id)}
  IN  IF hits = {} THEN NotFound
      ELSE menu[CHOOSE i \in hits : \A j \in hits : i <= j]

(***************************************************************************)
(* Request bodies.                                                         *)
(***************************************************************************)
OrderItem(id, size, quantity) ==
  [item_id |-> id, size |-> size, quantity |-> quantity]

\* a /webhook body: json_ok = the body is JSON; final_ok = Final_order is a
\* JSON text that validates as FinalOrder, whose fields follow
WebhookBody(json_ok, final_ok, has_order, order_items, has_items, items) ==
  [json_ok |-> json_ok, final_ok |-> final_ok, has_order |-> has_order,
   order_items |-> order_items, has_items |-> has_items, items |-> items]

WebhookBodies ==
  { \* {"items": [{12, medium, 2}]}
    WebhookBody(TRUE, TRUE, FALSE, <<>>, TRUE,
                <<OrderItem(StrId(<<"12">>), <<"medium">>, 2)>>),
    \* {"order": {"items": [{" LATTE", MEDIUM, 1}, {12, ar_wst, 0}]}, "items": [..]}
    WebhookBody(TRUE, TRUE, TRUE,
                <<OrderItem(StrId(<<BLANK, "LATTE">>), <<"MEDIUM">>, 1),
                  OrderItem(IntId(12), <<"ar_wst">>, 0)>>,
                TRUE, <<OrderItem(StrId(<<"7">>), <<"small">>, 1)>>),
    \* {"items": [{99}, {12}, {98}]}
    WebhookBody(TRUE, TRUE, FALSE, <<>>, TRUE,
                <<OrderItem(StrId(<<"99">>), <<"small">>, 1),
                  OrderItem(StrId(<<"12">>), <<"large">>, 1),
                  OrderItem(IntId(98), <<"XL">>, 2)>>),
    \* {"items": []}
    WebhookBody(TRUE, TRUE, FALSE, <<>>, TRUE, <<>>),
    \* Final_order missing, not JSON, or not a FinalOrder
    WebhookBody(TRUE, FALSE, FALSE, <<>>, FALSE, <<>>),
    \* the body is not JSON
    WebhookBody(FALSE, FALSE, FALSE, <<>>, FALSE, <<>>) }

\* a /recommendations body: has_field = it validates as RecommendationPayload
RecommendationBody(json_ok, has_field, items_ids) ==
  [json_ok |-> json_ok, has_field |-> has_field, items_ids |-> items_ids]

RecommendationBodies ==
  { \* "7 ,Latte"
    RecommendationBody(TRUE, TRUE, <<"7", BLANK, ",", "Latte">>),
    \* "99,, 12"
    RecommendationBody(TRUE, TRUE, <<"99", ",", ",", BLANK, "12">>),
    \* " , "
    RecommendationBody(TRUE, TRUE, <<BLANK, ",", BLANK>>),
    \* items_ids missing or no string
    RecommendationBody(TRUE, FALSE, <<>>),
    \* the body is not JSON
    RecommendationBody(FALSE, FALSE, <<>>) }

\* FinalOrder.get_items
get_items(final_order) ==
  IF final_order.has_order THEN final_order.order_items
  ELSE IF final_order.has_items /\ final_order.items # <<>>
       THEN final_order.items ELSE <<>>

\* the item_ids list of recommendations_endpoint: split, strip, drop the empty
item_ids(items_ids) ==
  LET pieces == Split(items_ids)
      stripped == [i \in 1..Len(pieces) |-> Strip(pieces[i])]
  IN  SelectSeq(stripped, LAMBDA id : id # <<>>)

\* not_found_items as it would be were the list emptied on every pass of the loop
NotFoundLastOnly(menu, ids) ==
  IF ids # <<>> /\ find_menu_item(menu, ids[Len(ids)]) = NotFound
  THEN <<ids[Len(ids)]>> ELSE <<>>

\* not_found_items as it would be were the loop left at the first miss
NotFoundFirstOnly(menu, ids) ==
  LET missing == SelectSeq(ids, LAMBDA id : find_menu_item(menu, id) = NotFound)
  IN  IF missing = <<>> THEN <<>> ELSE <<Head(missing)>>

\* the ids a handler's lookup loop appends to not_found_items
not_found_items(menu, ids) ==
  SelectSeq(ids, LAMBDA id : find_menu_item(menu, id) = NotFound)

\* the recommendations list built by recommendations_endpoint's loop
Recommendations(menu, ids) ==
  LET found == SelectSeq(ids, LAMBDA id : find_menu_item(menu, id) # NotFound)
  IN  [i \in 1..Len(found) |-> [menu_item |-> find_menu_item(menu, found[i])]]

\* order_details as it would be were each line inserted at the front
OrderDetailsPrepend(menu, order_items) ==
  LET found == SelectSeq(order_items,
                 LAMBDA it : find_menu_item(menu, Str(it.item_id)) # NotFound)
  IN  [i \in 1..Len(found) |->
         [menu_item |-> find_menu_item(menu, Str(found[Len(found) + 1 - i].item_id)),
          size |-> found[Len(found) + 1 - i].size,
          quantity |-> found[Len(found) + 1 - i].quantity]]

\* the order_details list built by webhook_endpoint's loop
OrderDetails(menu, order_items) ==
  LET found == SelectSeq(order_items,
                 LAMBDA it : find_menu_item(menu, Str(it.item_id)) # NotFound)
  IN  [i \in 1..Len(found) |->
         [menu_item |-> find_menu_item(menu, Str(found[i].item_id)),
          size |-> found[i].size,
          quantity |-> found[i].quantity]]

\* the str(item.item_id) of every order item, in order
OrderIds(order_items) == [i \in 1..Len(order_items) |-> Str(order_items[i].item_id)]

(***************************************************************************)
(* Sizes: get_size_key and the price lookup of generate_html_content.      *)
(***************************************************************************)
\* the size_mapping dict of get_size_key
size_mapping ==
  (<<"ar_wst">> :> <<"medium">>) @@ (<<"ar_mwst">> :> <<"medium">>) @@
  (<<"ar_sghyr">> :> <<"small">>) @@ (<<"ar_kbyr">> :> <<"large">>) @@
  (<<"medium">> :> <<"medium">>) @@ (<<"small">> :> <<"small">>) @@
  (<<"large">> :> <<"large">>)

\* get_size_key as it would be without any str.lower()
GetSizeKeyNoLower(size) ==
  IF size \in DOMAIN size_mapping THEN size_mapping[size] ELSE size

\* get_size_key: size_mapping.get(size.lower(), size.lower())
get_size_key(size) ==
  IF Lower(size) \in DOMAIN size_mapping
  THEN size_mapping[Lower(size)]
  ELSE Lower(size)

\* menu_item['sizes'].get(size, 0): the sizes dict has one-word keys
SizesGet(sizes, size) ==
  IF Len(size) = 1 /\ size[1] \in DOMAIN sizes THEN sizes[size[1]] ELSE 0

\* the fragments size texts are made of
SizeFragments ==
  {"ar_wst", "ar_mwst", "ar_sghyr", "ar_kbyr", "medium", "Medium", "MEDIUM",
   "small", "Small", "SMALL", "large", "Large", "LARGE", "xl", "XL", BLANK}

\* item['size'] of an order line: any text of at most MaxSizeLen fragments
Sizes == UNION {[1..n -> SizeFragments] : n \in 0..MaxSizeLen}

(***************************************************************************)
(* State.                                                                  *)
(***************************************************************************)
VARIABLES
  menu_items,             \* the catalog loaded from menu.json
  proc,                   \* "down", "serving" or "crashed" (startup raised)
  starts,                 \* how often the entry point has been run
  main_globals,           \* last_order_details / last_recommendations of __main__
  last_order_details,     \* the global of router.main, the module uvicorn serves
  last_recommendations,   \* the global of router.main
  file,                   \* state.pkl
  websockets,             \* ws_manager.websockets
  conn,                   \* per viewer: "new", "open", "closed" (remote gone), "gone"
  inbox,                  \* per viewer: the messages it was sent
  req,                    \* per request: position, body, locals, response
  replaced,               \* history: the messages of this run's replacements, in order
  persist,                \* history: outcome of the latest save_state of this run
  boot_file,              \* history: state.pkl as the latest startup found it
  html,                   \* generate_html_content at one order line: its locals
  slot,                   \* per viewer: where the set's hash table holds its entry
  fill,                   \* entries of the table in use, removed ones included
  lookup,                 \* find_menu_item at work: its argument and its result
  reply                   \* the response of the latest read request

vars ==
  <<menu_items, proc, starts, main_globals, last_order_details, last_recommendations, file, websockets, conn, inbox, req, replaced,
    persist, boot_file, html, slot, fill, lookup, reply>>

EmptyGlobals == [last_order_details |-> <<>>, last_recommendations |-> <<>>]

FileMissing == [kind |-> "missing", data |-> EmptyGlobals]
FileCorrupt == [kind |-> "corrupt", data |-> EmptyGlobals]
FileOf(data) == [kind |-> "ok", data |-> data]

NoMessage == [type |-> "none", data |-> <<>>, rep |-> 0]

IdleRequest ==
  [pc |-> "idle", kind |-> "none", body |-> <<>>, status |-> 0, error |-> <<>>,
   message |-> NoMessage, used |-> 0, disconnected |-> <<>>, cur |-> 0,
   cur_ok |-> FALSE, began |-> {}, ws |-> 0]

Range(f) == {f[i] : i \in DOMAIN f}

\* find_menu_item is not running
NoLookup == [pc |-> "idle", item_id |-> <<>>, item |-> <<>>]

\* no read request has been answered
NoReply == [path |-> "none", content |-> <<>>]

\* generate_html_content is not running
NoRender == [pc |-> "idle", item |-> <<>>, size |-> <<>>, price |-> 0]

\* a set's table has 8 slots and is rebuilt by the add that fills the fifth
ResizeFill == 5

\* the table of a new set: a viewer's number stands for the slot its WebSocket
\* object hashes to
NewTable(ids) == [v \in ids |-> v]

\* two of the tables a rebuild can produce.  The registered entries are
\* inserted again by their hashes under the larger mask and the removed ones
\* are gone: the entries may land in the low slots, or beyond the slots of
\* the old table.
Rebuilt(ids, old, members) ==
  LET rank(v) == Cardinality({w \in members : old[w] <= old[v]})
  IN  {[v \in ids |-> IF v \in members THEN rank(v) ELSE 0],
       [v \in ids |-> IF v \in members THEN Cardinality(ids) + rank(v) ELSE 0]}

Init ==
  /\ html = NoRender
  /\ lookup = NoLookup
  /\ reply = NoReply
  /\ slot = NewTable(Viewers)
  /\ fill = 0
  /\ menu_items \in Catalogs
  /\ proc = "down"
  /\ starts = 0
  /\ main_globals = EmptyGlobals
  /\ last_order_details = <<>>
  /\ last_recommendations = <<>>
  /\ file = FileMissing
  /\ websockets = {}
  /\ conn = [v \in Viewers |-> "new"]
  /\ inbox = [v \in Viewers |-> <<>>]
  /\ req = [r \in Reqs |-> IdleRequest]
  /\ replaced = <<>>
  /\ persist = "none"
  /\ boot_file = FileMissing

(***************************************************************************)
(* The state store: /current, save_state, load_state.                      *)
(***************************************************************************)
\* get_current with its two tests in the other order
GetCurrentRecommendationsFirst ==
  IF last_recommendations # <<>>
  THEN [type |-> "recommendations", data |-> last_recommendations]
  ELSE IF last_order_details # <<>>
       THEN [type |-> "order", data |-> last_order_details]
       ELSE [type |-> "none", data |-> <<>>]

\* get_current
get_current ==
  IF last_order_details # <<>>
  THEN [type |-> "order", data |-> last_order_details]
  ELSE IF last_recommendations # <<>>
       THEN [type |-> "recommendations", data |-> last_recommendations]
       ELSE [type |-> "none", data |-> <<>>]

\* the dict save_state pickles, given the globals at the time of the call
PickledState(order, recs) ==
  [last_order_details |-> order, last_recommendations |-> recs]

\* load_state run on a module whose globals are g: the globals afterwards.
\* Only called when the file can be unpickled or is missing.
load_state(g, f) == IF f.kind = "ok" THEN f.data ELSE g

\* load_state raises: pickle.load fails on a truncated or damaged file
LoadRaises(f) == f.kind = "corrupt"

(***************************************************************************)
(* The entry point (__main__) and the end of a run.                        *)
(***************************************************************************)
\* The globals of the module that serves requests.  The entry point runs
\* load_state() on the globals of __main__ and then hands uvicorn the import
\* string "router.main:app": uvicorn imports router.main as a second module,
\* whose lines 87-88 run again, so the served globals start empty whatever
\* was loaded.
ServedGlobals(loaded) == EmptyGlobals

Startup ==
  /\ proc \in {"down", "crashed"}
  /\ starts < MaxStarts
  /\ starts' = starts + 1
  /\ boot_file' = file
  /\ IF LoadRaises(file)
     THEN /\ proc' = "crashed"
          /\ UNCHANGED <<main_globals, last_order_details, last_recommendations>>
     ELSE /\ proc' = "serving"
          /\ main_globals' = load_state(EmptyGlobals, file)
          /\ last_order_details' =
               ServedGlobals(load_state(EmptyGlobals, file)).last_order_details
          /\ last_recommendations' =
               ServedGlobals(load_state(EmptyGlobals, file)).last_recommendations
  /\ UNCHANGED <<lookup, reply, slot, fill, html, menu_items, file, websockets, conn, inbox, req,
                 replaced, persist>>

\* the process ends: its memory, its open requests and its connections are
\* gone, and with the connections the viewers' pages
Stop ==
  /\ proc = "serving"
  /\ proc' = "down"
  /\ main_globals' = EmptyGlobals
  /\ last_order_details' = <<>>
  /\ last_recommendations' = <<>>
  /\ websockets' = {}
  /\ slot' = NewTable(Viewers)
  /\ fill' = 0
  /\ conn' = [v \in Viewers |-> IF conn[v] = "new" THEN "new" ELSE "gone"]
  /\ inbox' = [v \in Viewers |-> <<>>]
  /\ req' = [r \in Reqs |->
               IF req[r].pc \in {"body", "send"}
               THEN [IdleRequest EXCEPT !.pc = "done"]
               ELSE req[r]]
  /\ replaced' = <<>>
  /\ persist' = "none"
  /\ UNCHANGED <<lookup, reply, html, menu_items, starts, file, boot_file>>

(***************************************************************************)
(* WebSocketManager and /ws.                                               *)
(***************************************************************************)
\* a handler returns its JSONResponse; its locals are gone
Respond(rq, status, error) ==
  [rq EXCEPT !.pc = "done", !.status = status, !.error = error,
             !.message = NoMessage, !.used = 0, !.disconnected = <<>>,
             !.cur = 0, !.cur_ok = FALSE, !.began = {}, !.ws = 0]

\* WebSocketManager.broadcast from one step of its for loop to the next await.
\* A set is iterated in the slot order of its table: rq.cur is the slot the
\* iterator has reached, rq.ws the session found there (the loop variable) and
\* rq.used the size the set had when the loop began (rq.began, the set itself
\* at that time, is history: the code keeps no copy).  The iterator's
\* next() raises RuntimeError when the set's size differs from rq.used (the
\* handler's except answers 500); when no slot is left the second loop
\* discards the failed sessions and the handler answers success; otherwise
\* send_text is called on the session in the next slot, which writes the
\* message unless the remote side is gone.
Iterate(r, rq) ==
  IF Cardinality(websockets) # rq.used
  THEN /\ req' = [req EXCEPT ![r] = Respond(rq, 500, <<>>)]
       /\ UNCHANGED <<websockets, inbox>>
  ELSE LET left == {v \in websockets : slot[v] > rq.cur}
       IN  IF left = {}
           THEN /\ websockets' = websockets \ Range(rq.disconnected)
                /\ req' = [req EXCEPT ![r] = Respond(rq, 200, <<>>)]
                /\ UNCHANGED inbox
           ELSE LET v == CHOOSE u \in left : \A w \in left : slot[u] <= slot[w]
                IN  /\ req' = [req EXCEPT ![r] =
                                 [rq EXCEPT !.pc = "send", !.cur = slot[v], !.ws = v,
                                            !.cur_ok = (conn[v] = "open")]]
                    /\ inbox' = IF conn[v] = "open"
                                THEN [inbox EXCEPT ![v] = Append(@, rq.message)]
                                ELSE inbox
                    /\ UNCHANGED websockets

\* await ws.send_text(...) returns or raises, and broadcast goes on.  The await
\* has no timeout: a send to a viewer that has stopped reading stays pending.
SendReturn(r) ==
  /\ proc = "serving"
  /\ req[r].pc = "send"
  /\ req[r].cur_ok \/ conn[req[r].ws] # "stalled"
  /\ Iterate(r, [req[r] EXCEPT
                   !.disconnected = IF req[r].cur_ok THEN @ ELSE Append(@, req[r].ws)])
  /\ UNCHANGED <<lookup, reply, slot, fill, html, menu_items, proc, starts, main_globals,
                 last_order_details, last_recommendations, file, conn, replaced, persist, boot_file>>

\* websocket_endpoint up to its receive loop: connect() accepts and registers.
\* set.add puts the entry in the unused slot its hash leads to, and when that
\* fills the fifth of the 8 slots the table is rebuilt; an iterator in
\* progress keeps its slot number.
WsConnect(v) ==
  /\ proc = "serving"
  /\ conn[v] = "new"
  /\ conn' = [conn EXCEPT ![v] = "open"]
  /\ websockets' = websockets \cup {v}
  /\ IF fill + 1 < ResizeFill
     THEN /\ fill' = fill + 1
          /\ slot' = slot
     ELSE /\ fill' = Cardinality(websockets')
          /\ slot' \in Rebuilt(DOMAIN slot, slot, websockets')
  /\ UNCHANGED <<lookup, reply, html, menu_items, proc, starts, main_globals, last_order_details, last_recommendations, file, inbox, req, replaced, persist,
                 boot_file>>

\* the remote side of a viewer connection goes away
ClientClose(v) ==
  /\ conn[v] = "open"
  /\ conn' = [conn EXCEPT ![v] = "closed"]
  /\ UNCHANGED <<lookup, reply, slot, fill, html, menu_items, proc, starts, main_globals,
                 last_order_details, last_recommendations, file, websockets, inbox, req, replaced,
                 persist, boot_file>>

\* the remote side of a viewer connection stops reading and never closes: the
\* connection stays up and a send to it does not complete
ClientStall(v) ==
  /\ conn[v] = "open"
  /\ conn' = [conn EXCEPT ![v] = "stalled"]
  /\ UNCHANGED <<lookup, reply, slot, fill, html, menu_items, proc, starts, main_globals,
                 last_order_details, last_recommendations, file, websockets, inbox, req, replaced,
                 persist, boot_file>>

\* websocket_endpoint's except as it would be without the call of disconnect()
WsDisconnectKeeps(v) ==
  /\ proc = "serving"
  /\ conn[v] = "closed"
  /\ conn' = [conn EXCEPT ![v] = "gone"]
  /\ inbox' = [inbox EXCEPT ![v] = <<>>]
  /\ UNCHANGED <<lookup, reply, slot, fill, html, menu_items, proc, starts, main_globals,
                 last_order_details, last_recommendations, file, websockets, req, replaced, persist,
                 boot_file>>

\* websocket_endpoint: receive_text raises, the except calls disconnect()
WsDisconnect(v) ==
  /\ proc = "serving"
  /\ conn[v] = "closed"
  /\ conn' = [conn EXCEPT ![v] = "gone"]
  /\ websockets' = websockets \ {v}
  /\ inbox' = [inbox EXCEPT ![v] = <<>>]
  /\ UNCHANGED <<lookup, reply, slot, fill, html, menu_items, proc, starts, main_globals,
                 last_order_details, last_recommendations, file, req, replaced, persist, boot_file>>

(***************************************************************************)
(* The transport endpoints.                                                *)
(***************************************************************************)
\* a request reaches a handler, which suspends in await request.json()
RequestArrive(r) ==
  /\ proc = "serving"
  /\ req[r].pc = "idle"
  /\ \A q \in Reqs : q < r => req[q].pc # "idle"
  /\ \E kind \in {"webhook", "recommendations"} :
       req' = [req EXCEPT ![r] = [IdleRequest EXCEPT !.pc = "body", !.kind = kind]]
  /\ UNCHANGED <<lookup, reply, slot, fill, html, menu_items, proc, starts, main_globals,
                 last_order_details, last_recommendations, file, websockets, conn, inbox, replaced,
                 persist, boot_file>>

\* a handler returns an error response before it stored anything
\* an error response as it would be did the handler drop the state with it
FailClearing(r, body, status, error) ==
  /\ req' = [req EXCEPT ![r] = Respond([req[r] EXCEPT !.body = body], status, error)]
  /\ last_order_details' = <<>>
  /\ last_recommendations' = <<>>
  /\ UNCHANGED <<file, websockets, inbox, replaced, persist>>

Fail(r, body, status, error) ==
  /\ req' = [req EXCEPT ![r] = Respond([req[r] EXCEPT !.body = body], status, error)]
  /\ UNCHANGED <<last_order_details, last_recommendations, file, websockets,
                 inbox, replaced, persist>>

\* the assignment as it would be were new order lines added to the stored ones
StoreAppending(order, recs) ==
  /\ last_order_details' =
       IF recs = last_recommendations THEN last_order_details \o order ELSE order
  /\ last_recommendations' = recs

\* the assignment to the global: the new list replaces the old one.  The
\* handler that stores an order passes the recommendations as they are, and
\* the other way round.
Store(order, recs) ==
  /\ last_order_details' = order
  /\ last_recommendations' = recs

\* the tail of both handlers: assign the global, save_state(), notify_clients().
\* There is no await between the assignment and the end of save_state, and
\* the first await after it is the first send_text of the broadcast.
\* save_state may raise (the disk): open() failed and the file is as it was,
\* or the file was truncated by open(.., "wb") and not written completely.
Replace(r, body, order, recs, message) ==
  /\ Store(order, recs)
  /\ replaced' = Append(replaced, message)
  /\ \/ /\ file' = FileOf(PickledState(last_order_details', last_recommendations'))
        /\ persist' = "ok"
        /\ Iterate(r, [req[r] EXCEPT !.body = body, !.message = message,
                                      !.used = Cardinality(websockets),
                                      !.began = websockets])
     \/ /\ file' \in {file, FileCorrupt}
        /\ persist' = "failed"
        /\ req' = [req EXCEPT ![r] =
                     Respond([req[r] EXCEPT !.body = body, !.message = message],
                             500, <<>>)]
        /\ UNCHANGED <<websockets, inbox>>

\* webhook_endpoint from the return of request.json(), which yields the body
\* or raises, to its first await or its response
HandleWebhook(r) ==
  /\ proc = "serving"
  /\ req[r].pc = "body"
  /\ req[r].kind = "webhook"
  /\ \E body \in WebhookBodies :
     LET order_items == get_items(body)
         not_found == not_found_items(menu_items, OrderIds(order_items))
         order_details == OrderDetails(menu_items, order_items)
     IN  IF ~body.json_ok THEN Fail(r, body, 500, <<>>)
         ELSE IF ~body.final_ok \/ order_items = <<>> THEN Fail(r, body, 400, <<>>)
         ELSE IF not_found # <<>> THEN Fail(r, body, 404, not_found)
         ELSE IF order_details = <<>> THEN Fail(r, body, 400, <<>>)
         ELSE Replace(r, body, order_details, last_recommendations,
                      [type |-> "order", data |-> order_details, rep |-> r])
  /\ UNCHANGED <<lookup, reply, slot, fill, html, menu_items, proc, starts, main_globals, conn, boot_file>>

\* recommendations_endpoint from the return of request.json(), which yields
\* the body or raises, to its first await or its response
HandleRecommendations(r) ==
  /\ proc = "serving"
  /\ req[r].pc = "body"
  /\ req[r].kind = "recommendations"
  /\ \E body \in RecommendationBodies :
     LET ids == item_ids(body.items_ids)
         not_found == not_found_items(menu_items, ids)
         recommendations == Recommendations(menu_items, ids)
     IN  IF ~body.json_ok \/ ~body.has_field THEN Fail(r, body, 500, <<>>)
         ELSE IF ids = <<>> THEN Fail(r, body, 400, <<>>)
         ELSE IF not_found # <<>> THEN Fail(r, body, 404, not_found)
         ELSE IF recommendations = <<>> THEN Fail(r, body, 400, <<>>)
         ELSE Replace(r, body, last_order_details, recommendations,
                      [type |-> "recommendations", data |-> recommendations,
                       rep |-> r])
  /\ UNCHANGED <<lookup, reply, slot, fill, html, menu_items, proc, starts, main_globals, conn, boot_file>>

Next ==
  \/ Startup
  \/ Stop
  \/ \E r \in Reqs : RequestArrive(r)
  \/ \E r \in Reqs : HandleWebhook(r)
  \/ \E r \in Reqs : HandleRecommendations(r)
  \/ \E r \in Reqs : SendReturn(r)
  \/ \E v \in Viewers : WsConnect(v)
  \/ \E v \in Viewers : ClientClose(v)
  \/ \E v \in Viewers : WsDisconnect(v)

Spec == Init /\ [][Next]_vars

(***************************************************************************)
(* The order page: generate_html_content on one line of order_details.     *)
(***************************************************************************)
\* the loop of generate_html_content takes a line: any catalog item with any
\* size text, since the handler stores item.size as it was sent
InitRender ==
  /\ lookup = NoLookup
  /\ reply = NoReply
  /\ menu_items \in Catalogs
  /\ proc = "serving"
  /\ starts = 1
  /\ main_globals = EmptyGlobals
  /\ last_order_details = <<>>
  /\ last_recommendations = <<>>
  /\ file = FileMissing
  /\ websockets = {}
  /\ conn = [v \in Viewers |-> "new"]
  /\ inbox = [v \in Viewers |-> <<>>]
  /\ req = [r \in Reqs |-> IdleRequest]
  /\ replaced = <<>>
  /\ persist = "none"
  /\ boot_file = FileMissing
  /\ slot = NewTable(Viewers)
  /\ fill = 0
  /\ \E i \in 1..Len(menu_items), size \in Sizes :
       html = [pc |-> "item", size |-> <<>>, price |-> 0,
               item |-> [menu_item |-> menu_items[i], size |-> size, quantity |-> 1]]

\* size = get_size_key(item['size'])
NormalizeSize ==
  /\ html.pc = "item"
  /\ html' = [html EXCEPT !.pc = "size", !.size = get_size_key(html.item.size)]
  /\ UNCHANGED <<menu_items, proc, starts, main_globals, last_order_details, last_recommendations, file, websockets, conn, inbox, req,
                 replaced, persist, boot_file, slot, fill, lookup, reply>>

\* price = menu_item['sizes'].get(size, 0)
PriceLookup ==
  /\ html.pc = "size"
  /\ html' = [html EXCEPT !.pc = "price",
                          !.price = SizesGet(html.item.menu_item.sizes, html.size)]
  /\ UNCHANGED <<menu_items, proc, starts, main_globals, last_order_details, last_recommendations, file, websockets, conn, inbox, req,
                 replaced, persist, boot_file, slot, fill, lookup, reply>>

NextRender ==
  \/ NormalizeSize
  \/ PriceLookup

SpecRender == InitRender /\ [][NextRender]_vars

(***************************************************************************)
(* One webhook request and a longer succession of viewers, so that the     *)
(* set's table is rebuilt.                                                 *)
(***************************************************************************)
InitTable ==
  /\ html = NoRender
  /\ lookup = NoLookup
  /\ reply = NoReply
  /\ slot = NewTable(Sessions)
  /\ fill = 0
  /\ menu_items \in Catalogs
  /\ proc = "down"
  /\ starts = 0
  /\ main_globals = EmptyGlobals
  /\ last_order_details = <<>>
  /\ last_recommendations = <<>>
  /\ file = FileMissing
  /\ websockets = {}
  /\ conn = [v \in Sessions |-> "new"]
  /\ inbox = [v \in Sessions |-> <<>>]
  /\ req = [r \in Reqs |-> IdleRequest]
  /\ replaced = <<>>
  /\ persist = "none"
  /\ boot_file = FileMissing

\* the viewers connect one after the other, and the remote side that goes
\* away is that of the latest viewer still connected
NextTable ==
  \/ Startup
  \/ RequestArrive(1)
  \/ HandleWebhook(1)
  \/ SendReturn(1)
  \/ \E v \in Sessions :
       (\A u \in 1..(v - 1) : conn[u] # "new") /\ WsConnect(v)
  \/ \E v \in Sessions :
       (\A u \in Sessions : u > v => conn[u] # "open") /\ ClientClose(v)
  \/ \E v \in Sessions : WsDisconnect(v)

SpecTable == InitTable /\ [][NextTable]_vars

\* the same program with viewers that may stop reading
NextStall ==
  \/ Next
  \/ \E v \in Viewers : ClientStall(v)

SpecStall == Init /\ [][NextStall]_vars

(***************************************************************************)
(* find_menu_item on its own: any catalog order, any reference.            *)
(***************************************************************************)
MaxRefLen == 3

\* catalogs with the americano item first, last, in the middle and absent
LookupCatalogs ==
  {<<Latte, Mocha>>, <<Latte, IcedAmericano>>, <<IcedAmericano, Latte>>,
   <<Latte, IcedAmericano, Mocha>>}

RefFragments ==
  {"12", "7", "99", "Latte", "LATTE", "Mocha", "ar_latte", "Iced", "Americano", BLANK}

\* the references a caller may pass
LookupRefs == UNION {[1..n -> RefFragments] : n \in 0..MaxRefLen}

InitLookup ==
  /\ lookup = NoLookup
  /\ reply = NoReply
  /\ html = NoRender
  /\ menu_items \in LookupCatalogs
  /\ proc = "serving"
  /\ starts = 1
  /\ main_globals = EmptyGlobals
  /\ last_order_details = <<>>
  /\ last_recommendations = <<>>
  /\ file = FileMissing
  /\ websockets = {}
  /\ conn = [v \in Viewers |-> "new"]
  /\ inbox = [v \in Viewers |-> <<>>]
  /\ req = [r \in Reqs |-> IdleRequest]
  /\ replaced = <<>>
  /\ persist = "none"
  /\ boot_file = FileMissing
  /\ slot = NewTable(Viewers)
  /\ fill = 0

\* a caller passes a reference to find_menu_item
LookupCall(item_id) ==
  /\ lookup.pc = "idle"
  /\ lookup' = [pc |-> "called", item_id |-> item_id, item |-> <<>>]
  /\ UNCHANGED <<menu_items, proc, starts, main_globals, last_order_details,
                 last_recommendations, file, websockets, conn, inbox, req,
                 replaced, persist, boot_file, html, slot, fill, reply>>

\* find_menu_item returns
LookupReturn ==
  /\ lookup.pc = "called"
  /\ lookup' = [lookup EXCEPT !.pc = "done",
                              !.item = find_menu_item(menu_items, lookup.item_id)]
  /\ UNCHANGED <<menu_items, proc, starts, main_globals, last_order_details,
                 last_recommendations, file, websockets, conn, inbox, req,
                 replaced, persist, boot_file, html, slot, fill, reply>>

NextLookup ==
  \/ \E item_id \in LookupRefs : LookupCall(item_id)
  \/ LookupReturn

SpecLookup == InitLookup /\ [][NextLookup]_vars

(***************************************************************************)
(* The read endpoints, next to one writing request and the sessions.       *)
(***************************************************************************)
\* the page view_order returns: a constant text
OrderPage == <<"html", "dynamic-content">>

\* view_order as it would be did it reset the state it is told not to reset
ViewOrderResets ==
  /\ proc = "serving"
  /\ last_order_details' = <<>>
  /\ last_recommendations' = <<>>
  /\ reply' = [path |-> "/", content |-> OrderPage]
  /\ UNCHANGED <<menu_items, proc, starts, main_globals, file, websockets, conn,
                 inbox, req, replaced, persist, boot_file, html, slot, fill, lookup>>

\* GET /
ViewOrder ==
  /\ proc = "serving"
  /\ reply' = [path |-> "/", content |-> OrderPage]
  /\ UNCHANGED <<menu_items, proc, starts, main_globals, last_order_details,
                 last_recommendations, file, websockets, conn, inbox, req,
                 replaced, persist, boot_file, html, slot, fill, lookup>>

\* GET /current
GetCurrent ==
  /\ proc = "serving"
  /\ reply' = [path |-> "/current", content |-> get_current]
  /\ UNCHANGED <<menu_items, proc, starts, main_globals, last_order_details,
                 last_recommendations, file, websockets, conn, inbox, req,
                 replaced, persist, boot_file, html, slot, fill, lookup>>

\* GET /debug-menu
DebugMenu ==
  /\ proc = "serving"
  /\ reply' = [path |-> "/debug-menu",
               content |-> [i \in 1..Len(menu_items) |->
                              [item |-> menu_items[i].item,
                               name_en |-> menu_items[i].name_en,
                               name_ar |-> menu_items[i].name_ar]]]
  /\ UNCHANGED <<menu_items, proc, starts, main_globals, last_order_details,
                 last_recommendations, file, websockets, conn, inbox, req,
                 replaced, persist, boot_file, html, slot, fill, lookup>>

NextRead ==
  \/ ViewOrder
  \/ GetCurrent
  \/ DebugMenu
  \/ Startup
  \/ Stop
  \/ RequestArrive(1)
  \/ HandleWebhook(1)
  \/ HandleRecommendations(1)
  \/ SendReturn(1)
  \/ \E v \in Viewers : WsConnect(v)
  \/ \E v \in Viewers : ClientClose(v)
  \/ \E v \in Viewers : WsDisconnect(v)

SpecRead == Init /\ [][NextRead]_vars

(***************************************************************************)
(* Vocabulary of the properties.                                           *)
(***************************************************************************)
\* request r's handler runs from the return of request.json() in this step
Handled(r) == req[r].pc = "body" /\ req'[r].pc # "body" /\ req'[r].kind # "none"

\* the request record holds a body its handler has read
HasBody(rq) == rq.kind # "none" /\ rq.pc \in {"send", "done"}

\* the body has the shape the endpoint asks for
WellFormed(rq) ==
  IF rq.kind = "webhook"
  THEN rq.body.json_ok /\ rq.body.final_ok
  ELSE rq.body.json_ok /\ rq.body.has_field

\* the line items a well-formed order payload asks for
RequestedItems(body) == IF body.has_order THEN body.order_items ELSE body.items

\* the item references of a well-formed request, in payload order
RequestedRefs(rq) ==
  IF rq.kind = "webhook"
  THEN [i \in 1..Len(RequestedItems(rq.body)) |-> RequestedItems(rq.body)[i].item_id.v]
  ELSE item_ids(rq.body.items_ids)

\* the references of a well-formed request that have no catalog match
UnresolvedRefs(rq) ==
  SelectSeq(RequestedRefs(rq), LAMBDA id : find_menu_item(menu_items, id) = NotFound)

\* malformed payload, empty item list, or at least one unresolved reference
ResolutionFails(rq) ==
  \/ ~WellFormed(rq)
  \/ RequestedRefs(rq) = <<>>
  \/ UnresolvedRefs(rq) # <<>>

\* the line sequence an order payload resolves to
ResolvedLines(body) ==
  [i \in 1..Len(RequestedItems(body)) |->
     [menu_item |-> find_menu_item(menu_items, RequestedItems(body)[i].item_id.v),
      size |-> RequestedItems(body)[i].size,
      quantity |-> RequestedItems(body)[i].quantity]]

\* the reference equals no catalog item's id, English name or Arabic name
Absent(id) ==
  \A i \in 1..Len(menu_items) :
    /\ Lower(menu_items[i].item) # Strip(Lower(id))
    /\ Lower(menu_items[i].name_en) # Strip(Lower(id))
    /\ Lower(menu_items[i].name_ar) # Strip(Lower(id))

\* no catalog item's English name contains "americano"
NoAmericano ==
  \A i \in 1..Len(menu_items) : ~ContainsAmericano(Lower(menu_items[i].name_en))

LastReplaced == replaced[Len(replaced)]

(***************************************************************************)
(* C1.  /current reports the variant and the data of the most recent       *)
(* successful request: after a successful recommendations request it is    *)
(* "recommendations" with the new items, after a successful order it is    *)
(* "order" with the new lines.                                             *)
(***************************************************************************)
C1_CurrentIsLatest ==
  (proc = "serving" /\ replaced # <<>> /\ persist = "ok")
    => get_current = [type |-> LastReplaced.type, data |-> LastReplaced.data]

(***************************************************************************)
(* C2.  A request whose resolution fails (malformed payload, empty item    *)
(* list, or an unresolved reference) leaves the in-memory state and the    *)
(* state file as they were and sends nothing to any viewer.                *)
(***************************************************************************)
C2_FailedResolutionChangesNothing ==
  [][\A r \in Reqs :
       (Handled(r) /\ ResolutionFails(req'[r]))
         => /\ req'[r].pc = "done"
            /\ UNCHANGED <<last_order_details, last_recommendations, file,
                           inbox, websockets, replaced>>]_vars

C2_Witness ==
  \E r \in Reqs :
    /\ req[r].pc = "done" /\ req[r].kind # "none"
    /\ UnresolvedRefs(req[r]) # <<>>
    /\ WellFormed(req[r])
    /\ last_order_details # <<>>
    /\ \E v \in Viewers : v \in websockets /\ conn[v] = "open"

(***************************************************************************)
(* C3.  A valid order payload all of whose references resolve replaces the *)
(* state exactly once, and /current is then type "order" with exactly the  *)
(* resolved lines of the payload, in payload order, one per requested      *)
(* item, each with its catalog item, size and quantity.                    *)
(***************************************************************************)
C3_OrderReplacesOnce ==
  [][\A r \in Reqs :
       /\ (Handled(r) /\ req'[r].kind = "webhook" /\ ~ResolutionFails(req'[r]))
            => /\ get_current' =
                    [type |-> "order", data |-> ResolvedLines(req'[r].body)]
               /\ Len(replaced') = Len(replaced) + 1
       /\ (req[r].pc = "send" /\ req'[r] # req[r] /\ proc' = "serving")
            => UNCHANGED <<last_order_details, last_recommendations, replaced>>]_vars

C3_Witness ==
  \E r \in Reqs :
    /\ req[r].pc = "done" /\ req[r].kind = "webhook" /\ req[r].status = 200
    /\ Len(RequestedItems(req[r].body)) = 2
    /\ get_current = [type |-> "order", data |-> ResolvedLines(req[r].body)]

(***************************************************************************)
(* C4.  Resolution is all-or-nothing: a request with a reference that has  *)
(* no catalog match is answered 404 with an error that lists every         *)
(* unresolved reference of the request, and what is stored or sent is      *)
(* never a partial list of a request's items.                              *)
(***************************************************************************)
C4_AllOrNothing ==
  /\ \A r \in Reqs :
       (req[r].pc = "done" /\ HasBody(req[r]) /\ WellFormed(req[r])
          /\ UnresolvedRefs(req[r]) # <<>>)
         => req[r].status = 404 /\ req[r].error = UnresolvedRefs(req[r])
  /\ \A i \in 1..Len(replaced) :
       /\ HasBody(req[replaced[i].rep])
       /\ Len(replaced[i].data) = Len(RequestedRefs(req[replaced[i].rep]))
  /\ \A v \in Viewers : \A i \in 1..Len(inbox[v]) :
       inbox[v][i] \in Range(replaced)

C4_Witness ==
  \E r \in Reqs :
    /\ req[r].pc = "done" /\ req[r].status = 404
    /\ Len(req[r].error) = 2
    /\ Len(RequestedRefs(req[r])) = 3

(***************************************************************************)
(* C5.  As claimed: for any catalog, a recommendations request with a      *)
(* reference that equals no item's id, English name or Arabic name is      *)
(* answered 404, the error names the reference, and the state is           *)
(* unchanged.                                                              *)
(***************************************************************************)
C5_AbsentReferenceIs404 ==
  [][\A r \in Reqs :
       (/\ Handled(r) /\ req'[r].kind = "recommendations" /\ WellFormed(req'[r])
        /\ \E i \in 1..Len(RequestedRefs(req'[r])) : Absent(RequestedRefs(req'[r])[i]))
         => /\ req'[r].pc = "done" /\ req'[r].status = 404
            /\ \A i \in 1..Len(RequestedRefs(req'[r])) :
                 Absent(RequestedRefs(req'[r])[i])
                   => RequestedRefs(req'[r])[i] \in Range(req'[r].error)
            /\ UNCHANGED <<last_order_details, last_recommendations, file>>]_vars

(***************************************************************************)
(* C5, amended.  The same for any catalog in which no item's English name  *)
(* contains "americano": with such an item in the catalog every reference  *)
(* resolves to it or to an item before it.                                 *)
(***************************************************************************)
C5_AbsentReferenceIs404_NoAmericano ==
  [][\A r \in Reqs :
       (/\ NoAmericano
        /\ Handled(r) /\ req'[r].kind = "recommendations" /\ WellFormed(req'[r])
        /\ \E i \in 1..Len(RequestedRefs(req'[r])) : Absent(RequestedRefs(req'[r])[i]))
         => /\ req'[r].pc = "done" /\ req'[r].status = 404
            /\ \A i \in 1..Len(RequestedRefs(req'[r])) :
                 Absent(RequestedRefs(req'[r])[i])
                   => RequestedRefs(req'[r])[i] \in Range(req'[r].error)
            /\ UNCHANGED <<last_order_details, last_recommendations, file>>]_vars

C5_Witness ==
  \E r \in Reqs :
    /\ NoAmericano
    /\ req[r].pc = "done" /\ req[r].kind = "recommendations"
    /\ req[r].status = 404 /\ req[r].error = <<<<"99">>>>
    /\ Absent(<<"99">>)
    /\ last_recommendations # <<>>

\* the globals of the serving module are what state.pkl holds (no file yet
\* counts as holding the empty state)
FileMatchesMemory ==
  \/ /\ file.kind = "missing"
     /\ last_order_details = <<>> /\ last_recommendations = <<>>
  \/ /\ file.kind = "ok"
     /\ file.data.last_order_details = last_order_details
     /\ file.data.last_recommendations = last_recommendations

\* the place of a message in the order of this run's replacements
Position(m) == CHOOSE i \in 1..Len(replaced) : replaced[i] = m

(***************************************************************************)
(* C6.  With webhook requests in flight concurrently, a viewer that stays  *)
(* subscribed receives the order events in the order in which their        *)
(* replacements completed: never the event of an earlier replacement after *)
(* the event of a later one.                                               *)
(***************************************************************************)
C6_EventsInReplacementOrder ==
  \A v \in websockets :
    conn[v] = "open" =>
      \A i, j \in 1..Len(inbox[v]) :
        (i < j /\ inbox[v][i].type = "order" /\ inbox[v][j].type = "order")
          => Position(inbox[v][i]) < Position(inbox[v][j])

(***************************************************************************)
(* C7.  As long as no save_state has failed, state.pkl equals the          *)
(* in-memory state wherever a handler is suspended, under every            *)
(* interleaving of requests.                                               *)
(***************************************************************************)
C7_FileEqualsMemory ==
  (/\ proc = "serving"
   /\ persist # "failed"
   /\ \E r \in Reqs : req[r].pc \in {"body", "send"})
    => FileMatchesMemory

(***************************************************************************)
(* C8.  After an order was persisted and the process was started again     *)
(* through its entry point, /current, with no webhook call since the       *)
(* start, returns that order.                                              *)
(***************************************************************************)
C8_RestartRestoresOrder ==
  (/\ proc = "serving"
   /\ replaced = <<>> /\ persist = "none"
   /\ boot_file.kind = "ok"
   /\ boot_file.data.last_order_details # <<>>)
    => get_current =
         [type |-> "order", data |-> boot_file.data.last_order_details]

(***************************************************************************)
(* C9.  Startup is never aborted by loading: when state.pkl is missing or  *)
(* cannot be unpickled the process serves, and its state is Empty.         *)
(***************************************************************************)
C9_LoadNeverAborts ==
  (starts > 0 /\ proc # "down" /\ boot_file.kind \in {"missing", "corrupt"})
    => /\ proc = "serving"
       /\ (replaced = <<>> /\ persist = "none") => get_current.type = "none"

\* the sessions whose send has failed in the publish request r is in
FailedSessions(r) ==
  Range(req[r].disconnected) \cup (IF req[r].cur_ok THEN {} ELSE {req[r].ws})

(***************************************************************************)
(* C10.  A publish in which the send to a session fails ends with exactly  *)
(* the failed sessions removed from the registered set, with the message   *)
(* sent to every other registered session, and with the success response.  *)
(***************************************************************************)
C10_SendFailureIsolated ==
  [][\A r \in Reqs :
       (/\ req[r].pc = "send" /\ req'[r].pc = "done" /\ req'[r].kind # "none"
        /\ FailedSessions(r) # {})
         => /\ req'[r].status = 200
            /\ websockets' = websockets \ FailedSessions(r)
            /\ \A v \in websockets' :
                 conn[v] = "open" => req[r].message \in Range(inbox'[v])]_vars

\* request r's publish ends in this step with the handler's response
PublishEnds(r) == req[r].pc = "send" /\ req'[r].pc = "done" /\ req'[r].kind # "none"

\* how often message m is in the sequence s
Count(s, m) == Cardinality({i \in 1..Len(s) : s[i] = m})

(***************************************************************************)
(* C11.  A viewer connecting or disconnecting while a publish is suspended *)
(* in a send does not disturb the publish: it works on a snapshot of the   *)
(* session set, so it ends with the success response and with the message  *)
(* sent to every session that was registered when it began and is still    *)
(* connected.                                                              *)
(***************************************************************************)
C11_PublishUndisturbed ==
  [][\A r \in Reqs :
       PublishEnds(r)
         => /\ req'[r].status = 200
            /\ \A v \in req[r].began :
                 (v \in websockets /\ conn[v] = "open")
                   => req[r].message \in Range(inbox'[v])]_vars

\* the state a viewer holds after receiving message m: its type and data
ViewerState(m) == [type |-> m.type, data |-> m.data]

\* viewer v has received events and the last one is the latest replacement
UpToDate(v) ==
  /\ inbox[v] # <<>>
  /\ replaced # <<>>
  /\ inbox[v][Len(inbox[v])] = LastReplaced

(***************************************************************************)
(* C12.  A viewer that was connected and received an order event holds the *)
(* same state, type and data, as a viewer that connects after that event   *)
(* and asks /current.                                                      *)
(***************************************************************************)
C12_PushEqualsPull ==
  \A v \in Viewers :
    (UpToDate(v) /\ LastReplaced.type = "order")
      => get_current = ViewerState(LastReplaced)

\* a viewer has received exactly one event, an order, which is the latest
\* replacement, while recommendations of an earlier request are still stored
C12_Witness ==
  \E v \in Viewers :
    /\ UpToDate(v)
    /\ LastReplaced.type = "order"
    /\ Len(inbox[v]) = 1
    /\ last_recommendations # <<>>

\* request r's handler stores an order in this step and save_state succeeds
StoresOrder(r) ==
  /\ req[r].pc = "body"
  /\ req[r].kind = "webhook"
  /\ Len(replaced') = Len(replaced) + 1
  /\ persist' = "ok"

\* the step of request r replays the payload of the latest replacement, an
\* order that was stored and saved
Replays(r) ==
  /\ StoresOrder(r)
  /\ replaced # <<>>
  /\ LastReplaced.type = "order"
  /\ persist = "ok"
  /\ LastReplaced.rep # r
  /\ req'[r].body = req[LastReplaced.rep].body

(***************************************************************************)
(* C13.  Replaying the same valid order payload leaves the state in memory *)
(* and the persisted state as they were after the first call: the lines    *)
(* are replaced, not appended.                                             *)
(***************************************************************************)
C13_ReplayIsIdempotent ==
  [][\A r \in Reqs :
       Replays(r) => /\ last_order_details' = last_order_details
                     /\ last_recommendations' = last_recommendations
                     /\ file' = file]_vars

\* the same two-line order payload was stored twice
C13_Witness ==
  /\ Len(replaced) = 2
  /\ replaced[1].type = "order"
  /\ replaced[2].type = "order"
  /\ persist = "ok"
  /\ req[1].body = req[2].body
  /\ Len(last_order_details) = 2

\* the payload of the handled request rq is well formed and names no item
ZeroItems(rq) == WellFormed(rq) /\ RequestedRefs(rq) = <<>>

(***************************************************************************)
(* C14.  On both endpoints every malformed payload and every payload with  *)
(* zero items is answered with status 400.                                 *)
(***************************************************************************)
C14_MalformedIs400 ==
  \A r \in Reqs :
    (HasBody(req[r]) /\ (~WellFormed(req[r]) \/ ZeroItems(req[r])))
      => req[r].status = 400

(***************************************************************************)
(* C15.  When save_state fails during a replacement the new state stays in *)
(* memory and /current returns the new state.                              *)
(***************************************************************************)
C15_SaveFailureKeepsNewState ==
  (persist = "failed" /\ replaced # <<>>)
    => /\ LastReplaced.type = "order" => last_order_details = LastReplaced.data
       /\ LastReplaced.type = "recommendations"
            => last_recommendations = LastReplaced.data
       /\ get_current = ViewerState(LastReplaced)

(***************************************************************************)
(* C16.  A publish never waits indefinitely on a slow or dead viewer: a    *)
(* publish that is suspended in a send can always go on to the remaining   *)
(* viewers and to its response, whatever the viewer does.                  *)
(***************************************************************************)
C16_PublishNeverStuck ==
  \A r \in Reqs : req[r].pc = "send" => ENABLED SendReturn(r)

\* the words of the size vocabulary, by canonical key
Vocabulary ==
  [small |-> {"small", "ar_sghyr"},
   medium |-> {"medium", "ar_wst", "ar_mwst"},
   large |-> {"large", "ar_kbyr"}]

\* the size text is a word of the vocabulary under key k, in any letter case
IsVariantOf(size, k) == Len(size) = 1 /\ LowerFragment(size[1]) \in Vocabulary[k]

\* the size text is in the vocabulary
Known(size) == \E k \in DOMAIN Vocabulary : IsVariantOf(size, k)

(***************************************************************************)
(* C17.  Size normalization maps every variant of a vocabulary word, in    *)
(* any letter case, to the same canonical key and so to the same price; a  *)
(* size outside the vocabulary comes back lowercased and otherwise         *)
(* unchanged; normalizing a normalized size changes nothing.               *)
(***************************************************************************)
C17_SizeNormalization ==
  html.pc \in {"size", "price"}
    => /\ \A k \in DOMAIN Vocabulary :
            IsVariantOf(html.item.size, k)
              => /\ html.size = <<k>>
                 /\ \A other \in Sizes :
                      IsVariantOf(other, k) => get_size_key(other) = html.size
                 /\ html.pc = "price" => html.price = html.item.menu_item.sizes[k]
       /\ ~Known(html.item.size) => html.size = Lower(html.item.size)
       /\ get_size_key(html.size) = html.size

\* an upper-case English variant was normalized and priced like the Arabic word
C17_Witness ==
  /\ html.pc = "price"
  /\ html.item.size = <<"MEDIUM">>
  /\ html.size = get_size_key(<<"ar_wst">>)
  /\ html.price = 1500

\* request r is a webhook request whose publish ends in this step with the
\* success response
SuccessfulPublish(r) ==
  PublishEnds(r) /\ req[r].kind = "webhook" /\ req'[r].status = 200

\* session v was registered for the whole publish of request r, which is
\* ending, and the send to it did not fail
ServedThroughout(r, v) ==
  /\ v \in req[r].began
  /\ v \in websockets
  /\ v \notin FailedSessions(r)

(***************************************************************************)
(* C18.  For every successful webhook request the event is delivered       *)
(* exactly once to every session that is registered for the whole publish  *)
(* and whose send succeeds: none is skipped, none receives it twice.       *)
(***************************************************************************)
C18_ExactlyOnce ==
  [][\A r \in Reqs :
       SuccessfulPublish(r)
         => \A v \in DOMAIN conn :
              /\ ServedThroughout(r, v) => Count(inbox'[v], req[r].message) = 1
              /\ Count(inbox'[v], req[r].message) <= 1]_vars

\* session v's connection has been accepted
Accepted(v) == conn[v] # "new"

\* session v has been removed from the registered set
Removed(v) == Accepted(v) /\ v \notin websockets

\* some publish calls send_text on session v in this step
SendAttempt(v) ==
  \E r \in Reqs : req'[r].pc = "send" /\ req'[r].ws = v /\ req'[r] # req[r]

C20_OneVariantHeld ==
  /\ ~(last_order_details # <<>> /\ last_recommendations # <<>>)
  /\ ~(file.data.last_order_details # <<>> /\ file.data.last_recommendations # <<>>)

\* the condition of the lookup: the item's id, English name or Arabic name is
\* the reference, letter case aside, or its English name contains americano
Satisfies(item, ref) ==
  \/ Lower(item.item) = ref
  \/ Lower(item.name_en) = ref
  \/ Lower(item.name_ar) = ref
  \/ \E i \in 1..Len(item.name_en) : LowerFragment(item.name_en[i]) = "americano"

(***************************************************************************)
(* C21.  Item lookup lowercases and trims the reference and returns the    *)
(* first item, in catalog order, that satisfies the condition; it returns  *)
(* not-found exactly when no catalog item satisfies it.                    *)
(***************************************************************************)
C21_LookupFirstMatch ==
  lookup.pc = "done" =>
    LET ref == Strip(Lower(lookup.item_id))
        sat == {i \in 1..Len(menu_items) : Satisfies(menu_items[i], ref)}
    IN  /\ lookup.item = NotFound <=> sat = {}
        /\ sat # {} =>
             \E i \in sat : /\ lookup.item = menu_items[i]
                            /\ \A j \in sat : i <= j

\* a padded upper-case reference found the first of two items that satisfy
\* the condition, with a third, unrelated item behind them
C21_Witness ==
  /\ lookup.pc = "done"
  /\ lookup.item_id = <<BLANK, "LATTE", BLANK>>
  /\ menu_items = <<Latte, IcedAmericano, Mocha>>
  /\ lookup.item = Latte

(***************************************************************************)
(* C22.  Every line of the stored order has a positive quantity, in memory *)
(* and in the persisted file: an order with a line of quantity zero or     *)
(* less is never stored as the current state.                              *)
(***************************************************************************)
C22_PositiveQuantities ==
  /\ \A i \in 1..Len(last_order_details) : last_order_details[i].quantity > 0
  /\ \A i \in 1..Len(file.data.last_order_details) :
       file.data.last_order_details[i].quantity > 0

\* a read endpoint answers in this step
ReadAnswered == reply' # reply

(***************************************************************************)
(* C23.  The read endpoints /current, /debug-menu and / leave the state in *)
(* memory, the persisted file, the catalog and the registered sessions as  *)
(* they are, and publish no event.                                         *)
(***************************************************************************)
C23_ReadsChangeNothing ==
  [][ReadAnswered =>
       /\ UNCHANGED <<last_order_details, last_recommendations, main_globals>>
       /\ UNCHANGED <<file, menu_items, websockets, slot, fill>>
       /\ UNCHANGED <<inbox, req, replaced>>]_vars

\* /current has answered with a stored order that is also in the file, while
\* a session is registered
C23_Witness ==
  /\ reply.path = "/current"
  /\ reply.content.type = "order"
  /\ last_order_details # <<>>
  /\ file.kind = "ok"
  /\ websockets # {}

\* request r is answered in this step (the process goes on serving)
Answered(r) ==
  /\ req[r].pc \in {"body", "send"}
  /\ req'[r].pc = "done"
  /\ proc' = "serving"

\* request r has replaced the state in memory by the end of this step
ChangedBy(r) == \E i \in 1..Len(replaced') : replaced'[i].rep = r

(***************************************************************************)
(* C24.  A request changes the state in memory if and only if it is        *)
(* answered with the success response: a request answered with an error    *)
(* status (400, 404 or 500) has left the state in memory as it was, and a  *)
(* request answered success has replaced it.                               *)
(***************************************************************************)
C24_ChangeIffSuccess ==
  [][\A r \in Reqs :
       Answered(r) => (req'[r].status = 200 <=> ChangedBy(r))]_vars

(***************************************************************************)
(* C25.  Within one process lifetime the display state never returns to    *)
(* Empty: once /current would answer "order" or "recommendations", no      *)
(* step of a serving process, a failed request included, makes it answer   *)
(* "none", and every replacement stores a non-empty sequence.              *)
(***************************************************************************)
C25_NeverBackToEmpty ==
  [][/\ (proc = "serving" /\ proc' = "serving" /\ get_current.type # "none")
         => get_current'.type # "none"
     /\ \A i \in 1..Len(replaced') : replaced'[i].data # <<>>]_vars

\* an order is on display, the request that stored it was answered success
\* and the other request was refused
C25_Witness ==
  /\ proc = "serving"
  /\ get_current.type = "order"
  /\ req[1].pc = "done" /\ req[1].status = 200
  /\ req[2].pc = "done" /\ req[2].status \in {400, 404}
====
